---- MODULE Spec2Model ----
(***************************************************************************)
(* A model of analytics_toolkit/data/transformers.py: the transform        *)
(* primitives, the composition operator of Transform and of Pipeline, and  *)
(* the eager Pipeline with its list of stages.                             *)
(*                                                                         *)
(* Python values are records.  A list of numbers is a TLA+ sequence; the   *)
(* outcome of a call is a record [exc, val]: exc = "none" and the value    *)
(* returned, or the name of the exception that left the call.              *)
(***************************************************************************)
EXTENDS Integers, Sequences, FiniteSets, TLC

VARIABLES
    tpool,      \* the Transform objects built so far (immutable values)
    tcall,      \* the last Transform.__or__ / __call__ and its outcome
    heap,       \* list objects: address -> contents (stages, in order)
    pipes,      \* Pipeline objects: id -> address of its _transforms list
    pcomp,      \* ghost: the pipelines that were an operand or the result of p | q
    nadds,      \* the number of add calls made
    pop,        \* the last Pipeline operation and its outcome
    xf,         \* the primitive (or function) under call and its arguments
    xin,        \* the data it is called on
    xpc,        \* "idle", "window" (inside WindowTransform's loop) or "done"
    xi,         \* WindowTransform.__call__'s i
    xout,       \* the value being built, and the outcome once xpc = "done"
    caches,     \* CacheTransform objects: id -> its key function and its _cache
    chist,      \* ghost: per CacheTransform, the calls made since its last clear
    napply,     \* the number of CacheTransform calls made
    cop,        \* the last CacheTransform operation and its outcome
    lheap,      \* list objects of the lazy pipelines: address -> contents
    lazies,     \* LazyPipeline objects: id -> its _source and its _transforms
    produced,   \* the counter of the producer: the times it was invoked
    collected,  \* ghost: the collect calls made so far, in order
    linvoked,   \* ghost: the calls of a stage made by LazyPipeline methods
    lop         \* the last LazyPipeline operation and its outcome

transformVars == <<tpool, tcall>>
pipelineVars == <<heap, pipes, pcomp, nadds, pop>>
primitiveVars == <<xf, xin, xpc, xi, xout>>
cacheVars == <<caches, chist, napply, cop>>
lazyVars == <<lheap, lazies, produced, collected, linvoked, lop>>
vars == <<tpool, tcall, heap, pipes, pcomp, nadds, pop, xf, xin, xpc, xi, xout,
          caches, chist, napply, cop, lheap, lazies, produced, collected, linvoked, lop>>

\* What the operations of one part leave alone
exceptTransform == <<pipelineVars, primitiveVars, cacheVars, lazyVars>>
exceptPipeline == <<transformVars, primitiveVars, cacheVars, lazyVars>>
exceptPrimitive == <<transformVars, pipelineVars, cacheVars, lazyVars>>
exceptCache == <<transformVars, pipelineVars, primitiveVars, lazyVars>>
exceptLazy == <<transformVars, pipelineVars, primitiveVars, cacheVars>>

-----------------------------------------------------------------------------
(* Outcomes of a call. *)

Ok(v) == [exc |-> "none", val |-> v]
Raise(e) == [exc |-> e, val |-> <<>>]

\* All sequences over S of length at most n
RECURSIVE SeqsUpTo(_, _)
SeqsUpTo(S, n) ==
    IF n = 0 THEN {<<>>}
    ELSE LET shorter == SeqsUpTo(S, n - 1)
         IN  shorter \cup {Append(q, e) : q \in shorter, e \in S}

Min(a, b) == IF a < b THEN a ELSE b
Max(a, b) == IF a > b THEN a ELSE b

\* data[lo:hi] on a list: an index below 0 counts from the end, and an
\* index beyond either end is clipped to it
Slice(data, lo, hi) ==
    LET n == Len(data)
        Clip(k) == IF k < 0 THEN Max(k + n, 0) ELSE Min(k, n)
    IN  SubSeq(data, Clip(lo) + 1, Clip(hi))

-----------------------------------------------------------------------------
(* User-supplied callables: predicates and mappers of the lambdas the      *)
(* scenarios use, and a plain function on lists.                            *)

Predicate(name, item) ==
    CASE name = "even" -> item % 2 = 0
      [] name = "big" -> item > 2

Mapper(name, item) ==
    CASE name = "double" -> item * 2
      [] name = "inc" -> item + 1

\* A plain callable that is no Transform: lambda xs: xs[1:]
PlainFunction(name, data) ==
    CASE name = "rest" -> IF Len(data) = 0 THEN <<>> ELSE Tail(data)

-----------------------------------------------------------------------------
(* Transform objects and the other Python values a stage or an operand can *)
(* be: a plain function, or a value that is not callable.                   *)

Filter(p) == [kind |-> "filter", fn |-> p]
Map(m) == [kind |-> "map", fn |-> m]
Function(f) == [kind |-> "function", fn |-> f]
NotCallable(v) == [kind |-> "value", fn |-> v]

\* The closures LazyPipeline.take and LazyPipeline.skip make: plain functions
Taker(n) == [kind |-> "taker", n |-> n]
Skipper(n) == [kind |-> "skipper", n |-> n]

\* ComposedTransform.__init__
ComposedTransform(first, second) ==
    [kind |-> "composed", first |-> first, second |-> second]

\* isinstance(v, Transform)
IsTransform(v) == v.kind \in {"filter", "map", "composed"}

\* callable(v): Transform defines __call__, a function is callable
IsCallable(v) == v.kind \in {"filter", "map", "composed", "function", "taker", "skipper"}

\* FilterTransform.__call__
FilterCall(p, data) == SelectSeq(data, LAMBDA item : Predicate(p, item))

\* MapTransform.__call__
MapCall(m, data) == [i \in 1..Len(data) |-> Mapper(m, data[i])]

\* taker(data): data[:n]
TakerCall(n, data) == Slice(data, 0, n)

\* skipper(data) with data[n + 1:], one element too many dropped
SkipperCallOneMore(n, data) == Slice(data, n + 1, Len(data))

\* skipper(data): data[n:]
SkipperCall(n, data) == Slice(data, n, Len(data))

\* ComposedTransform.__call__ in the wrong order, first(second(data))
RECURSIVE CallSwapped(_, _)
ThenSwapped(res, c) == IF res.exc # "none" THEN res ELSE CallSwapped(c, res.val)
CallSwapped(c, data) ==
    CASE c.kind = "filter" -> Ok(FilterCall(c.fn, data))
      [] c.kind = "map" -> Ok(MapCall(c.fn, data))
      [] c.kind = "function" -> Ok(PlainFunction(c.fn, data))
      [] c.kind = "taker" -> Ok(TakerCall(c.n, data))
      [] c.kind = "skipper" -> Ok(SkipperCall(c.n, data))
      [] c.kind = "composed" -> ThenSwapped(CallSwapped(c.second, data), c.first)
      [] OTHER -> Raise("TypeError")

\* c(data) for any Python value c: the __call__ of its class, or TypeError
\* ('... object is not callable').  ComposedTransform.__call__ evaluates
\* self.first(data) first; an exception there leaves the call at once.
RECURSIVE Call(_, _)

\* c(res) when the call that gave res returned, its exception otherwise
Then(res, c) == IF res.exc # "none" THEN res ELSE Call(c, res.val)

Call(c, data) ==
    CASE c.kind = "filter" -> Ok(FilterCall(c.fn, data))
      [] c.kind = "map" -> Ok(MapCall(c.fn, data))
      [] c.kind = "function" -> Ok(PlainFunction(c.fn, data))
      [] c.kind = "taker" -> Ok(TakerCall(c.n, data))
      [] c.kind = "skipper" -> Ok(SkipperCall(c.n, data))
      [] c.kind = "composed" -> Then(Call(c.first, data), c.second)
      [] OTHER -> Raise("TypeError")

\* Transform.__or__: no check of the operand
TransformOr(self, other) == ComposedTransform(self, other)

-----------------------------------------------------------------------------
(* The composition algebra of Transform: primitives are constructed, any    *)
(* Transform is combined with any operand by |, and any Transform built is  *)
(* applied to a list.                                                       *)

MaxComposed == 2

\* The primitives constructed: FilterTransform.__init__, MapTransform.__init__
Primitives == {Filter("even"), Map("double"), Map("inc")}

\* Right-hand operands that are no Transform: a function and a str
OtherOperands == {Function("rest"), NotCallable("text")}

CallInputs == {<<1, 2, 3, 4, 5, 6>>}

NoCall == [op |-> "none"]

\* No transform constructed, no pipeline, no primitive under call
TransformIdle == tpool = {} /\ tcall = NoCall
PipelineIdle == heap = <<>> /\ pipes = <<>> /\ pcomp = {} /\ nadds = 0 /\ pop = NoCall
PrimitiveIdle == xf = NoCall /\ xin = <<>> /\ xpc = "idle" /\ xi = 0 /\ xout = <<>>
CacheIdle == caches = <<>> /\ chist = <<>> /\ napply = 0 /\ cop = NoCall
LazyIdle ==
    /\ lheap = <<>> /\ lazies = <<>> /\ produced = 0
    /\ collected = <<>> /\ linvoked = 0 /\ lop = NoCall

\* self | other on a Transform: always returns a ComposedTransform
OrTransform(self, other) ==
    /\ Cardinality(tpool) < Cardinality(Primitives) + MaxComposed
    /\ tpool' = tpool \cup {TransformOr(self, other)}
    /\ tcall' = [op |-> "or", self |-> self, other |-> other,
                 out |-> Ok(TransformOr(self, other))]
    /\ UNCHANGED exceptTransform

\* self(data) on a Transform
CallTransform(self, data) ==
    /\ tcall' = [op |-> "call", self |-> self, data |-> data, out |-> Call(self, data)]
    /\ UNCHANGED <<tpool, exceptTransform>>

TransformInit ==
    /\ tpool = Primitives
    /\ tcall = NoCall
    /\ PipelineIdle
    /\ PrimitiveIdle
    /\ CacheIdle
    /\ LazyIdle

TransformNext ==
    \/ \E self \in tpool, other \in tpool \cup OtherOperands : OrTransform(self, other)
    \/ \E self \in tpool, data \in CallInputs : CallTransform(self, data)

TransformSpec == TransformInit /\ [][TransformNext]_vars

-----------------------------------------------------------------------------
(* The eager Pipeline.  A Python list is an object: heap[a] is the contents *)
(* of the list at address a, and a Pipeline's _transforms is an address.    *)
(* Address 1 is a list lst the caller holds and may pass to Pipeline(lst).  *)

MaxPipes == 3
MaxAdds == 1

\* The stages the caller adds
Stages == {Filter("even"), Map("inc")}

\* Right-hand operands of | that are no Pipeline: a Transform and a str
PipelineOperands == {Map("inc"), NotCallable("text")}

\* The contents the caller's list lst starts with
CallerLists == {<<>>, <<Map("inc")>>}

\* The argument tuples of pipe(*transforms)
PipeArgs == {<<>>, <<Filter("even")>>}

PipelineRef(id) == [kind |-> "pipeline", id |-> id]

\* isinstance(v, Pipeline)
IsPipeline(v) == v.kind = "pipeline"

\* The sequence of pipeline p: the contents of the list its _transforms names
Sequence(h, ps, p) == h[ps[p]]

\* transforms or []: a non-empty list is kept as the same object, None and
\* an empty list are replaced by a new empty list.  given = 0 stands for None.
\* The result is the heap and the address bound to self._transforms.
TransformsOrNew(h, given) ==
    IF given # 0 /\ Len(h[given]) > 0
    THEN [heap |-> h, addr |-> given]
    ELSE [heap |-> Append(h, <<>>), addr |-> Len(h) + 1]

\* Pipeline.add: self._transforms.append(transform), on the list object
PipelineAdd(h, ps, p, t) == [h EXCEPT ![ps[p]] = Append(@, t)]

\* Pipeline.__call__ with the loop run from the last stage to the first
RECURSIVE RunBackwards(_, _, _, _)
StepBackwards(seq, i, r, applied) ==
    IF r.exc # "none"
    THEN [out |-> r, applied |-> Append(applied, i)]
    ELSE RunBackwards(seq, i - 1, r.val, Append(applied, i))
RunBackwards(seq, i, result, applied) ==
    IF i < 1 THEN [out |-> Ok(result), applied |-> applied]
    ELSE StepBackwards(seq, i, Call(seq[i], result), applied)

\* Pipeline.__call__: the for loop from stage i on, result the value so far,
\* applied the stages called so far.  An exception in a stage ends the loop.
RECURSIVE Run(_, _, _, _)

\* result = transform(result) gave r for stage i: on with the loop, or out
RunStep(seq, i, r, applied) ==
    IF r.exc # "none"
    THEN [out |-> r, applied |-> Append(applied, i)]
    ELSE Run(seq, i + 1, r.val, Append(applied, i))

Run(seq, i, result, applied) ==
    IF i > Len(seq) THEN [out |-> Ok(result), applied |-> applied]
    ELSE RunStep(seq, i, Call(seq[i], result), applied)

PipelineCallReversed(seq, data) == RunBackwards(seq, Len(seq), data, <<>>)

PipelineCall(seq, data) == Run(seq, 1, data, <<>>)

\* The branch Pipeline.__or__ takes, with the callable test left out
OrBranchNoCheck(other) ==
    IF IsPipeline(other) THEN "concat" ELSE "append"

\* The branch Pipeline.__or__ takes for its operand
OrBranch(other) ==
    IF IsPipeline(other) THEN "concat"
    ELSE IF IsCallable(other) THEN "append"
    ELSE "raise"

\* Pipeline() with transforms = None
NewPipeline ==
    /\ Len(pipes) < MaxPipes
    /\ LET made == TransformsOrNew(heap, 0)
       IN  /\ heap' = made.heap
           /\ pipes' = Append(pipes, made.addr)
    /\ pop' = [op |-> "init", out |-> Ok(Len(pipes) + 1)]
    /\ UNCHANGED <<pcomp, nadds, exceptPipeline>>

\* Pipeline(lst) with the caller's list
NewPipelineFrom(lst) ==
    /\ Len(pipes) < MaxPipes
    /\ LET made == TransformsOrNew(heap, lst)
       IN  /\ heap' = made.heap
           /\ pipes' = Append(pipes, made.addr)
    /\ pop' = [op |-> "init", out |-> Ok(Len(pipes) + 1)]
    /\ UNCHANGED <<pcomp, nadds, exceptPipeline>>

\* pipe(*transforms): Pipeline(list(transforms)).  list(transforms) is a new
\* list; when it is empty, transforms or [] drops it for another new list,
\* and the dropped list, which nothing refers to, is not kept in heap.
Pipe(args) ==
    /\ Len(pipes) < MaxPipes
    /\ LET copied == Append(heap, args)
           made == IF Len(args) > 0
                   THEN TransformsOrNew(copied, Len(copied))
                   ELSE TransformsOrNew(heap, 0)
       IN  /\ heap' = made.heap
           /\ pipes' = Append(pipes, made.addr)
    /\ pop' = [op |-> "pipe", out |-> Ok(Len(pipes) + 1)]
    /\ UNCHANGED <<pcomp, nadds, exceptPipeline>>

\* p.add(t): returns self
Add(p, t) ==
    /\ nadds < MaxAdds
    /\ nadds' = nadds + 1
    /\ heap' = PipelineAdd(heap, pipes, p, t)
    /\ pop' = [op |-> "add", self |-> p, arg |-> t, out |-> Ok(p)]
    /\ UNCHANGED <<pipes, pcomp, exceptPipeline>>

\* p | other: a new Pipeline on the concatenated list, or TypeError.  The
\* sum of two lists is a new list; when it is empty, transforms or [] drops
\* it for another new list (the dropped one is not kept in heap).
Or(p, other) ==
    LET branch == OrBranch(other)
        mine == Sequence(heap, pipes, p)
        joined == IF branch = "concat"
                  THEN mine \o Sequence(heap, pipes, other.id)
                  ELSE mine \o <<other>>
    IN  IF branch = "raise"
        THEN /\ pop' = [op |-> "or", self |-> p, arg |-> other, out |-> Raise("TypeError")]
             /\ UNCHANGED <<heap, pipes, pcomp, nadds, exceptPipeline>>
        ELSE /\ Len(pipes) < MaxPipes
             /\ LET summed == Append(heap, joined)
                    made == IF Len(joined) > 0
                            THEN TransformsOrNew(summed, Len(summed))
                            ELSE TransformsOrNew(heap, 0)
                IN  /\ heap' = made.heap
                    /\ pipes' = Append(pipes, made.addr)
             /\ pcomp' = pcomp \cup {p, Len(pipes) + 1}
                            \cup (IF branch = "concat" THEN {other.id} ELSE {})
             /\ pop' = [op |-> "or", self |-> p, arg |-> other, out |-> Ok(Len(pipes) + 1)]
             /\ UNCHANGED <<nadds, exceptPipeline>>

\* p(data)
Invoke(p, data) ==
    /\ LET ran == PipelineCall(Sequence(heap, pipes, p), data)
       IN  pop' = [op |-> "call", self |-> p, arg |-> data,
                   out |-> ran.out, applied |-> ran.applied]
    /\ UNCHANGED <<heap, pipes, pcomp, nadds, exceptPipeline>>

Init ==
    /\ heap \in {<<c>> : c \in CallerLists}
    /\ pipes = <<>>
    /\ pcomp = {}
    /\ nadds = 0
    /\ pop = NoCall
    /\ TransformIdle
    /\ PrimitiveIdle
    /\ CacheIdle
    /\ LazyIdle

Next ==
    \/ NewPipeline
    \/ NewPipelineFrom(1)
    \/ \E args \in PipeArgs : Pipe(args)
    \/ \E p \in 1..Len(pipes), t \in Stages : Add(p, t)
    \/ \E p \in 1..Len(pipes),
          other \in {PipelineRef(q) : q \in 1..Len(pipes)} \cup PipelineOperands : Or(p, other)

Spec == Init /\ [][Next]_vars

-----------------------------------------------------------------------------
(* Invoking a pipeline: one Pipeline, already constructed on any sequence   *)
(* of stages, is extended by add and called.                                *)

MaxStages == 2

InvokeStages == {Filter("even"), Map("inc"), NotCallable("text")}

InvokeInputs == {<<>>, <<1, 2, 3, 4, 5, 6>>}

InvokeInit ==
    /\ heap \in {<<c>> : c \in SeqsUpTo(InvokeStages, MaxStages)}
    /\ pipes = <<1>>
    /\ pcomp = {}
    /\ nadds = 0
    /\ pop = NoCall
    /\ TransformIdle
    /\ PrimitiveIdle
    /\ CacheIdle
    /\ LazyIdle

InvokeNext ==
    \/ \E p \in 1..Len(pipes), t \in InvokeStages : Add(p, t)
    \/ \E p \in 1..Len(pipes), data \in InvokeInputs : Invoke(p, data)

InvokeSpec == InvokeInit /\ [][InvokeNext]_vars

-----------------------------------------------------------------------------
(* The primitives Window, Batch, Flatten and GroupBy.  A primitive is       *)
(* constructed with any of its arguments and called on any input;           *)
(* WindowTransform.__call__ is followed through its loop.                   *)

MaxSize == 3
MaxData == 7
MaxDepth == 3
MaxNested == 2
MaxGroup == 3
MaxReduce == 3
MaxTake == 4

\* [1, 2, ..., n]
Iota(n) == [k \in 1..n |-> k]

\* WindowTransform.__init__: self.step = step or size.  A step of 0 stands
\* for None as well: both are false.
WindowStep(size, step) == IF step # 0 THEN step ELSE size

WindowTransform(size, step) ==
    [kind |-> "window", size |-> size, step |-> WindowStep(size, step), given |-> step]

\* while i + self.size < len(data), one window short
WindowContinuesStrict(i, size, data) == i + size < Len(data)

\* while i + self.size <= len(data)
WindowContinues(i, size, data) == i + size <= Len(data)

BatchTransform(size) == [kind |-> "batch", size |-> size]

\* range(0, n, b) for b > 0, from i on
RECURSIVE RangeFrom(_, _, _)
RangeFrom(i, n, b) == IF i >= n THEN <<>> ELSE <<i>> \o RangeFrom(i + b, n, b)

\* BatchTransform.__call__ over range(0, n - b + 1, b): full chunks only
BatchCallFullOnly(b, data) ==
    IF b = 0 THEN Raise("ValueError")
    ELSE LET starts == RangeFrom(0, Len(data) - b + 1, b)
         IN  Ok([k \in 1..Len(starts) |-> Slice(data, starts[k], starts[k] + b)])

\* BatchTransform.__call__: the comprehension over range(0, len(data), b);
\* range raises ValueError for a step of 0
BatchCall(b, data) ==
    IF b = 0 THEN Raise("ValueError")
    ELSE LET starts == RangeFrom(0, Len(data), b)
         IN  Ok([k \in 1..Len(starts) |-> Slice(data, starts[k], starts[k] + b)])

\* Elements of a nested list: a number, or a list of elements
Leaf(n) == [int |-> n]
List(items) == [list |-> items]

\* isinstance(item, list)
IsList(item) == "list" \in DOMAIN item

FlattenTransform(depth) == [kind |-> "flatten", depth |-> depth]

\* flatten_once that flattens every level below an element
RECURSIVE FlattenAll(_, _, _)
FlattenAll(lst, i, result) ==
    IF i > Len(lst) THEN result
    ELSE IF IsList(lst[i])
         THEN FlattenAll(lst, i + 1, result \o FlattenAll(lst[i].list, 1, <<>>))
         ELSE FlattenAll(lst, i + 1, Append(result, lst[i]))

\* flatten_once: the for loop from element i on, with result so far
RECURSIVE FlattenOnceFrom(_, _, _)
FlattenOnceFrom(lst, i, result) ==
    IF i > Len(lst) THEN result
    ELSE IF IsList(lst[i])
         THEN FlattenOnceFrom(lst, i + 1, result \o lst[i].list)
         ELSE FlattenOnceFrom(lst, i + 1, Append(result, lst[i]))

FlattenOnceDeep(lst) == FlattenAll(lst, 1, <<>>)

FlattenOnce(lst) == FlattenOnceFrom(lst, 1, <<>>)

\* FlattenTransform.__call__: for _ in range(depth): result = flatten_once(result)
RECURSIVE FlattenCall(_, _)
FlattenCall(depth, result) ==
    IF depth <= 0 THEN result ELSE FlattenCall(depth - 1, FlattenOnce(result))

\* The key of GroupByTransform: a field name, or a function of the record
FieldKey(name) == [str |-> TRUE, name |-> name]
FunctionKey(name) == [str |-> FALSE, name |-> name]

\* The key functions the caller passes: lambda r: r["n"] % 2
KeyFunction(name, item) ==
    CASE name = "parity" -> item.n % 2

GroupByTransform(key) == [kind |-> "groupby", key |-> key]

\* k = item[self.key] if isinstance(self.key, str) else self.key(item)
KeyOf(key, item) == IF key.str THEN item[key.name] ELSE KeyFunction(key.name, item)

\* GroupByTransform.__call__ with groups[k] = [item] for groups[k].append(item)
RECURSIVE GroupByOverwrite(_, _, _, _)
GroupByOverwrite(key, data, i, groups) ==
    IF i > Len(data) THEN groups
    ELSE LET k == KeyOf(key, data[i])
             opened == IF \E g \in 1..Len(groups) : groups[g].key = k
                       THEN groups
                       ELSE Append(groups, [key |-> k, items |-> <<>>])
             at == CHOOSE g \in 1..Len(opened) : opened[g].key = k
         IN  GroupByOverwrite(key, data, i + 1, [opened EXCEPT ![at].items = <<data[i]>>])

\* GroupByTransform.__call__: the for loop from item i on.  groups is the
\* dict, as its entries in insertion order; a key not in it is entered at
\* the end with an empty list, and the item is appended to its key's list.
RECURSIVE GroupByFrom(_, _, _, _)
GroupByFrom(key, data, i, groups) ==
    IF i > Len(data) THEN groups
    ELSE LET k == KeyOf(key, data[i])
             opened == IF \E g \in 1..Len(groups) : groups[g].key = k
                       THEN groups
                       ELSE Append(groups, [key |-> k, items |-> <<>>])
             at == CHOOSE g \in 1..Len(opened) : opened[g].key = k
         IN  GroupByFrom(key, data, i + 1, [opened EXCEPT ![at].items = Append(@, data[i])])

GroupByCallOverwriting(key, data) == GroupByOverwrite(key, data, 1, <<>>)

GroupByCall(key, data) == GroupByFrom(key, data, 1, <<>>)

\* Python values a reduction works on: None and the integers
NoneValue == [type |-> "NoneType"]
IntValue(n) == [type |-> "int", n |-> n]

\* The reducers the caller passes:
\*   add     lambda acc, x: acc + x          (TypeError on None + int)
\*   digits  lambda acc, x: acc * 10 + x     (TypeError on None * int)
\*   count   lambda acc, x: (acc or 0) + 1
Reducer(name, acc, x) ==
    CASE name = "add" ->
            IF acc = NoneValue THEN Raise("TypeError") ELSE Ok(IntValue(acc.n + x.n))
      [] name = "digits" ->
            IF acc = NoneValue THEN Raise("TypeError") ELSE Ok(IntValue(acc.n * 10 + x.n))
      [] name = "count" ->
            IF acc = NoneValue THEN Ok(IntValue(1)) ELSE Ok(IntValue(acc.n + 1))

\* ReduceTransform.__init__(reducer, initial=None): given is the optional
\* argument as passed, <<>> when it is left out; self.initial is None then
ReduceTransform(reducer, given) ==
    [kind |-> "reduce", reducer |-> reducer,
     initial |-> IF given = <<>> THEN NoneValue ELSE given[1], given |-> given]

\* An outcome with the number of calls of the reducer made on the way
Counted(out, calls) == [exc |-> out.exc, val |-> out.val, calls |-> calls]

\* for item in ...: result = self.reducer(result, item), from item i on
RECURSIVE ReduceFrom(_, _, _, _, _)
ReduceStep(reducer, data, i, r, calls) ==
    IF r.exc # "none" THEN Counted(r, calls)
    ELSE ReduceFrom(reducer, data, i + 1, r.val, calls)
ReduceFrom(reducer, data, i, result, calls) ==
    IF i > Len(data) THEN Counted(Ok(result), calls)
    ELSE ReduceStep(reducer, data, i, Reducer(reducer, result, data[i]), calls + 1)

\* ReduceTransform.__call__: next(iterator) on an exhausted iterator raises
\* StopIteration
ReduceCall(self, data) ==
    IF self.initial # NoneValue
    THEN ReduceFrom(self.reducer, data, 1, self.initial, 0)
    ELSE IF Len(data) = 0 THEN Counted(Raise("StopIteration"), 0)
    ELSE ReduceFrom(self.reducer, data, 2, data[1], 0)

\* Elements of the nested inputs, nested up to three levels deep
NestedItems ==
    { Leaf(1), Leaf(2), List(<<>>), List(<<Leaf(1), Leaf(2)>>),
      List(<<Leaf(1), List(<<Leaf(2)>>)>>),
      List(<<List(<<List(<<Leaf(1)>>), Leaf(2)>>)>>) }

\* The records grouped
GroupItems == [dept : {"a", "b"}, n : {1, 2}]

GroupKeys == {FieldKey("dept"), FunctionKey("parity")}

\* The reducers, the optional initial as passed, and the items reduced
Reducers == {"add", "digits", "count"}
ReduceInitials == {<<>>, <<NoneValue>>, <<IntValue(0)>>, <<IntValue(5)>>}
ReduceItems == {IntValue(1), IntValue(2)}

\* Every primitive constructed, with every input it is called on
PrimitiveCases ==
    {<<WindowTransform(size, step), Iota(n)>> :
        size \in 1..MaxSize, step \in 0..MaxSize, n \in 0..MaxData}
    \cup {<<BatchTransform(size), Iota(n)>> : size \in 0..MaxSize, n \in 0..MaxData}
    \cup {<<FlattenTransform(depth), data>> :
        depth \in 0..MaxDepth, data \in SeqsUpTo(NestedItems, MaxNested)}
    \cup {<<GroupByTransform(key), data>> :
        key \in GroupKeys, data \in SeqsUpTo(GroupItems, MaxGroup)}
    \cup {<<ReduceTransform(reducer, given), data>> :
        reducer \in Reducers, given \in ReduceInitials,
        data \in SeqsUpTo(ReduceItems, MaxReduce)}
    \cup {<<stage, Iota(n)>> :
        stage \in {Taker(k) : k \in 0..MaxTake} \cup {Skipper(k) : k \in 0..MaxTake},
        n \in 0..MaxData}

\* More windows than any loop that ends makes on the inputs: with a size
\* of -1 and a step of 1 the loop runs len(data) + 2 times
MaxWindows == MaxData + 3

\* WindowTransform.__call__ entered: windows = [], i = 0
WindowEnter ==
    /\ xpc = "idle"
    /\ xf.kind = "window"
    /\ xpc' = "window"
    /\ xi' = 0
    /\ xout' = <<>>
    /\ UNCHANGED <<xf, xin, exceptPrimitive>>

\* The loop body: windows.append(data[i:i + self.size]); i += self.step.
\* A loop that ends makes fewer than MaxWindows windows; one that does not
\* end is followed up to MaxWindows of them.
WindowLoop ==
    /\ xpc = "window"
    /\ WindowContinues(xi, xf.size, xin)
    /\ Len(xout) < MaxWindows
    /\ xout' = Append(xout, Slice(xin, xi, xi + xf.size))
    /\ xi' = xi + xf.step
    /\ UNCHANGED <<xf, xin, xpc, exceptPrimitive>>

\* The loop left: return windows
WindowReturn ==
    /\ xpc = "window"
    /\ ~WindowContinues(xi, xf.size, xin)
    /\ xpc' = "done"
    /\ xout' = Ok(xout)
    /\ UNCHANGED <<xf, xin, xi, exceptPrimitive>>

BatchApply ==
    /\ xpc = "idle"
    /\ xf.kind = "batch"
    /\ xpc' = "done"
    /\ xout' = BatchCall(xf.size, xin)
    /\ UNCHANGED <<xf, xin, xi, exceptPrimitive>>

FlattenApply ==
    /\ xpc = "idle"
    /\ xf.kind = "flatten"
    /\ xpc' = "done"
    /\ xout' = Ok(FlattenCall(xf.depth, xin))
    /\ UNCHANGED <<xf, xin, xi, exceptPrimitive>>

GroupByApply ==
    /\ xpc = "idle"
    /\ xf.kind = "groupby"
    /\ xpc' = "done"
    /\ xout' = Ok(GroupByCall(xf.key, xin))
    /\ UNCHANGED <<xf, xin, xi, exceptPrimitive>>

ReduceApply ==
    /\ xpc = "idle"
    /\ xf.kind = "reduce"
    /\ xpc' = "done"
    /\ xout' = ReduceCall(xf, xin)
    /\ UNCHANGED <<xf, xin, xi, exceptPrimitive>>

\* The closure of LazyPipeline.take or LazyPipeline.skip, called as a stage
TakeSkipApply ==
    /\ xpc = "idle"
    /\ xf.kind \in {"taker", "skipper"}
    /\ xpc' = "done"
    /\ xout' = Call(xf, xin)
    /\ UNCHANGED <<xf, xin, xi, exceptPrimitive>>

PrimitiveInit ==
    /\ \E case \in PrimitiveCases : xf = case[1] /\ xin = case[2]
    /\ xpc = "idle"
    /\ xi = 0
    /\ xout = <<>>
    /\ TransformIdle
    /\ PipelineIdle
    /\ CacheIdle
    /\ LazyIdle

PrimitiveNext ==
    \/ WindowEnter
    \/ WindowLoop
    \/ WindowReturn
    \/ BatchApply
    \/ FlattenApply
    \/ GroupByApply
    \/ ReduceApply
    \/ TakeSkipApply

PrimitiveSpec == PrimitiveInit /\ [][PrimitiveNext]_vars

\* WindowTransform constructed with any integer size and step, a size of 0
\* and below and a step below 0 among them (a step of 0 stands for None too)
WindowCases ==
    {<<WindowTransform(size, step), Iota(n)>> :
        size \in (-1)..MaxSize, step \in (-1)..MaxSize, n \in 0..MaxData}

WindowInit ==
    /\ \E case \in WindowCases : xf = case[1] /\ xin = case[2]
    /\ xpc = "idle"
    /\ xi = 0
    /\ xout = <<>>
    /\ TransformIdle
    /\ PipelineIdle
    /\ CacheIdle
    /\ LazyIdle

WindowNext ==
    \/ WindowEnter
    \/ WindowLoop
    \/ WindowReturn

WindowSpec == WindowInit /\ [][WindowNext]_vars

-----------------------------------------------------------------------------
(* CacheTransform.  Caches are constructed with or without a key function, *)
(* called on objects the caller holds, and cleared.  An object is its      *)
(* address id (what id(x) returns while the object lives; the caller keeps *)
(* every input alive) and its contents val: objects 1 and 2 are two lists  *)
(* that are equal and not the same object.                                 *)

MaxCaches == 2
MaxApply == 3

CacheInputs ==
    { [id |-> 1, val |-> <<1, 2>>], [id |-> 2, val |-> <<1, 2>>],
      [id |-> 3, val |-> <<3, 4>>], [id |-> 4, val |-> <<5>>] }

\* The cache_key arguments: None ("none"), or lambda x: len(x)
CacheKeys == {"none", "len"}

\* CacheTransform.__init__: an empty dict, and the key function given or
\* lambda x: id(x)
CacheTransform(cache_key) ==
    [key_fn |-> IF cache_key = "none" THEN "id" ELSE cache_key, cache |-> <<>>]

\* self._key_fn(data)
KeyFn(name, data) ==
    CASE name = "id" -> data.id
      [] name = "len" -> Len(data.val)

\* key in self._cache; the dict is its entries in insertion order
HasKey(cache, key) == \E e \in 1..Len(cache) : cache[e].key = key

\* self._cache[key]
Lookup(cache, key) == cache[CHOOSE e \in 1..Len(cache) : cache[e].key = key].data

\* self._cache[key] = data
Store(cache, key, data) ==
    IF HasKey(cache, key)
    THEN [e \in 1..Len(cache) |->
            IF cache[e].key = key THEN [key |-> key, data |-> data] ELSE cache[e]]
    ELSE Append(cache, [key |-> key, data |-> data])

\* CacheTransform.__call__ without the test "if key not in self._cache"
CacheCallOverwriting(self, data) ==
    [cache |-> Store(self.cache, KeyFn(self.key_fn, data), data), out |-> data]

\* CacheTransform.__call__: the dict after the call and the value returned
CacheCall(self, data) ==
    LET key == KeyFn(self.key_fn, data)
        cache == IF ~HasKey(self.cache, key)
                 THEN Store(self.cache, key, data)
                 ELSE self.cache
    IN  [cache |-> cache, out |-> Lookup(cache, key)]

\* CacheTransform(cache_key)
NewCache(cache_key) ==
    /\ Len(caches) < MaxCaches
    /\ caches' = Append(caches, CacheTransform(cache_key))
    /\ chist' = Append(chist, <<>>)
    /\ cop' = [op |-> "init", self |-> Len(caches) + 1]
    /\ UNCHANGED <<napply, exceptCache>>

\* c(data)
CacheApply(c, data) ==
    /\ napply < MaxApply
    /\ LET called == CacheCall(caches[c], data)
       IN  /\ caches' = [caches EXCEPT ![c].cache = called.cache]
           /\ cop' = [op |-> "call", self |-> c, data |-> data, out |-> called.out]
    /\ chist' = [chist EXCEPT ![c] = Append(@, data)]
    /\ napply' = napply + 1
    /\ UNCHANGED exceptCache

\* c.clear()
CacheClear(c) ==
    /\ caches' = [caches EXCEPT ![c].cache = <<>>]
    /\ chist' = [chist EXCEPT ![c] = <<>>]
    /\ cop' = [op |-> "clear", self |-> c]
    /\ UNCHANGED <<napply, exceptCache>>

CacheInit ==
    /\ CacheIdle
    /\ TransformIdle
    /\ PipelineIdle
    /\ PrimitiveIdle
    /\ LazyIdle

CacheNext ==
    \/ \E cache_key \in CacheKeys : NewCache(cache_key)
    \/ \E c \in 1..Len(caches), data \in CacheInputs : CacheApply(c, data)
    \/ \E c \in 1..Len(caches) : CacheClear(c)

CacheSpec == CacheInit /\ [][CacheNext]_vars

-----------------------------------------------------------------------------
(* LazyPipeline.  Pipelines are constructed on a list or on a producer,    *)
(* with no list of transforms or with the list lst the caller holds at     *)
(* address 1 of lheap; builder methods derive new pipelines; collect       *)
(* materializes one.  The producer is a closure over a counter:            *)
(*     def producer(): count += 1; return [count, count + 1, count + 2]    *)

MaxLazies == 3
MaxCollects == 2

\* The source given to LazyPipeline: a list, or the producer
ListSource(v) == [callable |-> FALSE, val |-> v]
Producer == [callable |-> TRUE, val |-> <<>>]

LazySources == {ListSource(<<1, 2, 3>>), Producer}

\* The contents of the caller's list lst
LazyCallerLists == {<<Map("inc")>>}

\* The mappers, predicates and counts given to the builder methods
LazyMappers == {"inc"}
LazyPredicates == {"even"}
TakeCounts == {2}

\* What the producer returns when its counter has become count
ProducerCall(count) == <<count, count + 1, count + 2>>

\* The source resolved once and kept: the producer is invoked only while
\* its counter is 0
ResolveOnce(source, count) ==
    IF source.callable /\ count = 0
    THEN [val |-> ProducerCall(count + 1), count |-> count + 1]
    ELSE IF source.callable THEN [val |-> ProducerCall(count), count |-> count]
    ELSE [val |-> source.val, count |-> count]

\* self._source() if callable(self._source) else self._source: the value,
\* and the producer's counter afterwards
Resolve(source, count) ==
    IF source.callable
    THEN [val |-> ProducerCall(count + 1), count |-> count + 1]
    ELSE [val |-> source.val, count |-> count]

\* The loop of collect with transform(result) for
\* result = transform(result): every stage is called, its value dropped
CollectDiscarding(seq, i, result, applied) ==
    [out |-> Ok(result), applied |-> [k \in 1..Len(seq) |-> k]]

\* LazyPipeline.collect: for transform in self._transforms:
\* result = transform(result), from stage i on; applied is the stages called
RECURSIVE CollectFrom(_, _, _, _)
CollectStep(seq, i, r, applied) ==
    IF r.exc # "none"
    THEN [out |-> r, applied |-> Append(applied, i)]
    ELSE CollectFrom(seq, i + 1, r.val, Append(applied, i))
CollectFrom(seq, i, result, applied) ==
    IF i > Len(seq) THEN [out |-> Ok(result), applied |-> applied]
    ELSE CollectStep(seq, i, Call(seq[i], result), applied)

\* self._transforms.append(stage) on the receiver's own list, passed on
ExtendedInPlace(h, addr, stage) ==
    [heap |-> [h EXCEPT ![addr] = Append(@, stage)], addr |-> addr]

\* self._transforms + [stage]: a new list object
Extended(h, addr, stage) ==
    [heap |-> Append(h, Append(h[addr], stage)), addr |-> Len(h) + 1]

\* LazyPipeline.__init__(source, transforms): given = 0 stands for None.
\* The caller constructs one pipeline and derives the others from it.
NewLazy(source, given) ==
    /\ Len(lazies) = 0
    /\ LET made == TransformsOrNew(lheap, given)
       IN  /\ lheap' = made.heap
           /\ lazies' = Append(lazies, [source |-> source, transforms |-> made.addr])
    /\ lop' = [op |-> "init", out |-> Len(lazies) + 1]
    /\ UNCHANGED <<produced, collected, linvoked, exceptLazy>>

\* A builder method of pipeline p with its new stage:
\* LazyPipeline(self._source, self._transforms + [stage])
Build(method, p, stage) ==
    /\ Len(lazies) < MaxLazies
    /\ LET longer == Extended(lheap, lazies[p].transforms, stage)
           made == TransformsOrNew(longer.heap, longer.addr)
       IN  /\ lheap' = made.heap
           /\ lazies' = Append(lazies, [source |-> lazies[p].source,
                                        transforms |-> made.addr])
    /\ lop' = [op |-> method, self |-> p, stage |-> stage, out |-> Len(lazies) + 1]
    /\ UNCHANGED <<produced, collected, linvoked, exceptLazy>>

LazyMap(p, mapper) == Build("map", p, Map(mapper))
LazyFilter(p, predicate) == Build("filter", p, Filter(predicate))
LazyTake(p, n) == Build("take", p, Taker(n))
LazySkip(p, n) == Build("skip", p, Skipper(n))

\* p.collect(), and iter(p) through it
Collect(p) ==
    /\ Len(collected) < MaxCollects
    /\ LET source == Resolve(lazies[p].source, produced)
           ran == CollectFrom(lheap[lazies[p].transforms], 1, source.val, <<>>)
       IN  /\ produced' = source.count
           /\ linvoked' = linvoked + Len(ran.applied)
           /\ lop' = [op |-> "collect", self |-> p, source |-> source.val,
                      out |-> ran.out, applied |-> ran.applied]
           /\ collected' = Append(collected, [self |-> p, source |-> source.val,
                                              out |-> ran.out])
    /\ UNCHANGED <<lheap, lazies, exceptLazy>>

LazyInit ==
    /\ lheap \in {<<c>> : c \in LazyCallerLists}
    /\ lazies = <<>>
    /\ produced = 0
    /\ collected = <<>>
    /\ linvoked = 0
    /\ lop = NoCall
    /\ TransformIdle
    /\ PipelineIdle
    /\ PrimitiveIdle
    /\ CacheIdle

LazyNext ==
    \/ \E source \in LazySources, given \in {0, 1} : NewLazy(source, given)
    \/ \E p \in 1..Len(lazies), mapper \in LazyMappers : LazyMap(p, mapper)
    \/ \E p \in 1..Len(lazies), predicate \in LazyPredicates : LazyFilter(p, predicate)
    \/ \E p \in 1..Len(lazies), n \in TakeCounts : LazyTake(p, n)
    \/ \E p \in 1..Len(lazies), n \in TakeCounts : LazySkip(p, n)
    \/ \E p \in 1..Len(lazies) : Collect(p)

LazySpec == LazyInit /\ [][LazyNext]_vars

-----------------------------------------------------------------------------
(* models/statistics.py: calculate_percentile is called on any list of     *)
(* values with any percentile, and calculate_median on any list of values. *)
(*  The call is kept in the variables of a     *)
(* primitive under call: xf the function and its percentile, xin values.   *)

MaxValues == 3
MaxOver == 200

\* int(x) for the quotient a / b, b > 0: rounding toward zero.  For the
\* percentiles and lengths used, int((percentile / 100) * n) in floating
\* point equals the quotient percentile * n / 100 rounded toward zero.
TruncDiv(a, b) == IF a >= 0 THEN a \div b ELSE -((-a) \div b)

\* sorted(values): insertion into the sorted rest
RECURSIVE Sorted(_)
Sorted(values) ==
    IF Len(values) = 0 THEN <<>>
    ELSE LET rest == Sorted(Tail(values))
             v == Head(values)
             smaller == SelectSeq(rest, LAMBDA w : w < v)
             others == SelectSeq(rest, LAMBDA w : w >= v)
         IN  smaller \o <<v>> \o others

\* lst[k] on a list: an index below 0 counts from the end, an index past
\* either end raises IndexError
ListIndex(lst, k) ==
    IF 0 <= k /\ k < Len(lst) THEN Ok(lst[k + 1])
    ELSE IF -Len(lst) <= k /\ k < 0 THEN Ok(lst[Len(lst) + k + 1])
    ELSE Raise("IndexError")

\* index = (percentile / 100) * n, as int(index)
PercentileIndex(percentile, n) == TruncDiv(percentile * n, 100)

\* calculate_percentile: 0.0 for no values, else sorted_values[int(index)]
CalculatePercentile(values, percentile) ==
    IF Len(values) = 0 THEN Ok(0)
    ELSE ListIndex(Sorted(values), PercentileIndex(percentile, Len(values)))

Percentile(percentile) == [kind |-> "percentile", percentile |-> percentile]

\* calculate_median: 0.0 for no values, else sorted_values[n // 2], for an
\* even n as for an odd one
CalculateMedian(values) ==
    IF Len(values) = 0 THEN Ok(0)
    ELSE Ok(Sorted(values)[(Len(values) \div 2) + 1])

Median == [kind |-> "median"]

StatisticsValues == SeqsUpTo({1, 2, 3}, MaxValues)
Percentiles == (-MaxOver)..(100 + MaxOver)

PercentileApply ==
    /\ xpc = "idle"
    /\ xf.kind = "percentile"
    /\ xpc' = "done"
    /\ xout' = CalculatePercentile(xin, xf.percentile)
    /\ UNCHANGED <<xf, xin, xi, exceptPrimitive>>

MedianApply ==
    /\ xpc = "idle"
    /\ xf.kind = "median"
    /\ xpc' = "done"
    /\ xout' = CalculateMedian(xin)
    /\ UNCHANGED <<xf, xin, xi, exceptPrimitive>>

StatisticsInit ==
    /\ xf \in {Percentile(percentile) : percentile \in Percentiles} \cup {Median}
    /\ xin \in StatisticsValues
    /\ xpc = "idle"
    /\ xi = 0
    /\ xout = <<>>
    /\ TransformIdle
    /\ PipelineIdle
    /\ CacheIdle
    /\ LazyIdle

StatisticsNext ==
    \/ PercentileApply
    \/ MedianApply

StatisticsSpec == StatisticsInit /\ [][StatisticsNext]_vars

-----------------------------------------------------------------------------
(* Claims about the composition algebra of Transform (TransformSpec).       *)

\* h(g(f(x))): each stage called on what the stage before returned
Chain3(f, g, h, x) == Then(Then(Call(f, x), g), h)

\* A transform built as (f | g) | h, and one built as f | (g | h)
IsLeftGrouped(t) ==
    /\ t.kind = "composed"
    /\ t.first.kind = "composed"
IsRightGrouped(t) ==
    /\ t.kind = "composed"
    /\ t.second.kind = "composed"

\* C1: for any transforms f, g, h and any input x, (f | g) | h and
\* f | (g | h) both return h(g(f(x))) on x: when a transform f has been
\* called on x, both groupings of f with any g built so far and any
\* primitive h return that value on x, and every call made on a transform built in either
\* grouping returned it; Filter(even) | Map(double) on [1, 2, 3, 4, 5, 6]
\* returned [4, 8, 12].
C1_CompositionAssociative ==
    /\ tcall.op = "call" =>
          \A g \in tpool, h \in Primitives :
             LET f == tcall.self
                 x == tcall.data
             IN  /\ Call(TransformOr(TransformOr(f, g), h), x) = Chain3(f, g, h, x)
                 /\ Call(TransformOr(f, TransformOr(g, h)), x) = Chain3(f, g, h, x)
    /\ (tcall.op = "call" /\ IsLeftGrouped(tcall.self)) =>
          tcall.out = Chain3(tcall.self.first.first, tcall.self.first.second,
                             tcall.self.second, tcall.data)
    /\ (tcall.op = "call" /\ IsRightGrouped(tcall.self)) =>
          tcall.out = Chain3(tcall.self.first, tcall.self.second.first,
                             tcall.self.second.second, tcall.data)
    /\ ( /\ tcall.op = "call"
         /\ tcall.self = TransformOr(Filter("even"), Map("double"))
         /\ tcall.data = <<1, 2, 3, 4, 5, 6>> ) =>
          tcall.out = Ok(<<4, 8, 12>>)

\* A call was made on (Filter(even) | Map(double)) | Map(inc), where the
\* order of the three stages decides the value
C1_Witness ==
    /\ tcall.op = "call"
    /\ tcall.self = TransformOr(TransformOr(Filter("even"), Map("double")), Map("inc"))
    /\ tcall.data = <<1, 2, 3, 4, 5, 6>>
    /\ tcall.out = Ok(<<5, 9, 13>>)

\* C5: composing a Transform with an operand that is neither a Transform
\* nor a callable fails when the composition is attempted, and no composed
\* transform holds a second stage that cannot be applied.
C5_UnrecognisedOperandRejected ==
    /\ (tcall.op = "or" /\ ~IsTransform(tcall.other) /\ ~IsCallable(tcall.other)) =>
          tcall.out.exc # "none"
    /\ \A t \in tpool : t.kind = "composed" => IsCallable(t.second)

-----------------------------------------------------------------------------
(* Claims about invoking a Pipeline (InvokeSpec).                           *)

\* t(n-1)(...t0(data)...), from the outermost stage inwards
RECURSIVE Nested(_, _, _)
Nested(seq, n, data) ==
    IF n = 0 THEN Ok(data) ELSE Then(Nested(seq, n - 1, data), seq[n])

\* C2: invoking a Pipeline whose sequence is t0..t(n-1) returns
\* t(n-1)(...t0(data)...), every stage called exactly once and in sequence
\* order (up to the stage that raises, when one does); an empty sequence
\* returns data unchanged.
C2_InvokeFoldsInOrder ==
    pop.op = "call" =>
        LET seq == Sequence(heap, pipes, pop.self)
        IN  /\ pop.out = Nested(seq, Len(seq), pop.arg)
            /\ \A k \in 1..Len(pop.applied) : pop.applied[k] = k
            /\ pop.out.exc = "none" => Len(pop.applied) = Len(seq)
            /\ Len(seq) = 0 => pop.out = Ok(pop.arg)

\* A pipeline of two different stages, whose order decides the value, was invoked
C2_Witness ==
    /\ pop.op = "call"
    /\ Sequence(heap, pipes, pop.self) = <<Filter("even"), Map("inc")>>
    /\ pop.arg = <<1, 2, 3, 4, 5, 6>>
    /\ pop.out = Ok(<<3, 5, 7>>)
    /\ pop.applied = <<1, 2>>

-----------------------------------------------------------------------------
(* Claims about constructing and composing Pipelines (Spec).                *)

\* The step is p | other and returned a pipeline
OrReturned == pop'.op = "or" /\ pop'.out.exc = "none"

\* C3: p | q returns a new Pipeline whose sequence is p's followed by q's
\* (or by q itself), the sequences of p and q are unchanged by it, and any
\* later add on the result, on p or on q changes only the sequence of the
\* pipeline it was called on.
C3_OrIsIndependent ==
    [][ /\ OrReturned =>
             LET p == pop'.self
                 q == pop'.arg
                 r == pop'.out.val
             IN  /\ r = Len(pipes) + 1
                 /\ Len(pipes') = r
                 /\ \A old \in 1..Len(pipes) : pipes'[old] # pipes'[r]
                 /\ Sequence(heap', pipes', r) =
                       Sequence(heap, pipes, p) \o
                         (IF IsPipeline(q) THEN Sequence(heap, pipes, q.id) ELSE <<q>>)
                 /\ \A old \in 1..Len(pipes) :
                       Sequence(heap', pipes', old) = Sequence(heap, pipes, old)
        /\ (pop'.op = "add" /\ pop'.self \in pcomp) =>
             \A other \in 1..Len(pipes) \ {pop'.self} :
                Sequence(heap', pipes', other) = Sequence(heap, pipes, other)
      ]_vars

\* C4: p | other with other neither a Pipeline nor a callable raises
\* TypeError at the call, constructs no Pipeline and leaves every list,
\* the receiver's among them, as it was.
C4_OrRejectsUnrecognised ==
    [][ (pop'.op = "or" /\ ~IsPipeline(pop'.arg) /\ ~IsCallable(pop'.arg)) =>
           /\ pop'.out = Raise("TypeError")
           /\ pipes' = pipes
           /\ heap' = heap
      ]_vars

\* A pipeline with a stage in its sequence was composed with a str
C4_Witness ==
    /\ pop.op = "or"
    /\ pop.arg = NotCallable("text")
    /\ pop.out.exc = "TypeError"
    /\ Len(Sequence(heap, pipes, pop.self)) > 0

\* C6: add(t) appends t at the end of the receiver's sequence and returns
\* the receiver, and nothing but its own add calls changes a pipeline's
\* sequence, so that after any add calls the sequence is the initial
\* sequence followed by the transforms added to it, in call order.
C6_AddAppendsInCallOrder ==
    [][ \A p \in 1..Len(pipes) :
           IF pop'.op = "add" /\ pop'.self = p
           THEN /\ Sequence(heap', pipes', p) = Append(Sequence(heap, pipes, p), pop'.arg)
                /\ pop'.out = Ok(p)
           ELSE Sequence(heap', pipes', p) = Sequence(heap, pipes, p)
      ]_vars

-----------------------------------------------------------------------------
(* Claims about the primitives (PrimitiveSpec).                             *)

Returned(kind) == xpc = "done" /\ xf.kind = kind

\* The lists of a list of lists, joined in order
RECURSIVE Joined(_)
Joined(lists) == IF Len(lists) = 0 THEN <<>> ELSE Head(lists) \o Joined(Tail(lists))

\* C7: Window(size = s, step = t) with s > 0 and t > 0 on a sequence of
\* length n returns exactly max(0, floor((n - s) / t) + 1) windows, window
\* k (from 0) being data[k*t : k*t + s] of length exactly s; s > n gives no
\* window; Window(3, step = 2) on [1..6] gives [[1, 2, 3], [3, 4, 5]].
C7_WindowCountAndSlices ==
    (Returned("window") /\ xf.size > 0 /\ xf.given > 0) =>
        LET n == Len(xin)
            s == xf.size
            t == xf.given
            windows == xout.val
        IN  /\ xout.exc = "none"
            /\ Len(windows) = Max(0, ((n - s) \div t) + 1)
            /\ \A k \in 1..Len(windows) :
                  /\ Len(windows[k]) = s
                  /\ \A j \in 1..s : windows[k][j] = xin[(k - 1) * t + j]
            /\ s > n => windows = <<>>
            /\ (s = 3 /\ t = 2 /\ xin = <<1, 2, 3, 4, 5, 6>>) =>
                  windows = << <<1, 2, 3>>, <<3, 4, 5>> >>

\* Window(3, step = 2) was applied to [1..6]: two overlapping windows, and
\* a trailing element left out
C7_Witness ==
    /\ Returned("window")
    /\ xf.size = 3
    /\ xf.given = 2
    /\ xin = <<1, 2, 3, 4, 5, 6>>
    /\ xout = Ok(<< <<1, 2, 3>>, <<3, 4, 5>> >>)

\* C8: Batch(b) with b > 0 on a sequence of length n returns exactly
\* ceil(n / b) chunks whose concatenation is the input; every chunk but the
\* last has length b, the last has length n mod b (b when that is 0 and
\* n > 0); an empty input gives no chunk; Batch(3) on [1..7] gives
\* [[1, 2, 3], [4, 5, 6], [7]].
C8_BatchChunks ==
    (Returned("batch") /\ xf.size > 0) =>
        LET n == Len(xin)
            b == xf.size
            chunks == xout.val
        IN  /\ xout.exc = "none"
            /\ Len(chunks) = (n + b - 1) \div b
            /\ n = 0 => chunks = <<>>
            /\ Joined(chunks) = xin
            /\ \A k \in 1..(Len(chunks) - 1) : Len(chunks[k]) = b
            /\ n > 0 => Len(chunks[Len(chunks)]) = (IF n % b = 0 THEN b ELSE n % b)
            /\ (b = 3 /\ xin = <<1, 2, 3, 4, 5, 6, 7>>) =>
                  chunks = << <<1, 2, 3>>, <<4, 5, 6>>, <<7>> >>

\* Batch(3) was applied to [1..7]: two full chunks and a shorter last one
C8_Witness ==
    /\ Returned("batch")
    /\ xf.size = 3
    /\ xin = <<1, 2, 3, 4, 5, 6, 7>>
    /\ xout = Ok(<< <<1, 2, 3>>, <<4, 5, 6>>, <<7>> >>)

\* The levels of lists nested inside the elements of lst: 0 when flat
RECURSIVE NestDepth(_)
NestDepth(lst) ==
    LET Below(item) == IF IsList(item) THEN 1 + NestDepth(item.list) ELSE 0
    IN  IF Len(lst) = 0 THEN 0 ELSE Max(Below(Head(lst)), NestDepth(Tail(lst)))

\* lst with the lists down to d levels below it replaced by their contents,
\* in place: each element on its own, to its own depth
RECURSIVE Unnested(_, _)
Unnested(lst, d) ==
    IF d = 0 \/ Len(lst) = 0 THEN lst
    ELSE (IF IsList(Head(lst)) THEN Unnested(Head(lst).list, d - 1) ELSE <<Head(lst)>>)
         \o Unnested(Tail(lst), d)

\* No element is a list
IsFlat(lst) == \A k \in 1..Len(lst) : ~IsList(lst[k])

\* C9: Flatten(depth = d) flattens one level (each list element replaced by
\* its contents in place, other elements kept, order preserved) exactly d
\* times: the nesting is d levels less (or none); Flatten(1) on a two-level
\* nested sequence removes exactly one level; with d at least the nesting
\* depth the result is flat, and flattening further leaves it unchanged.
C9_FlattenLevels ==
    Returned("flatten") =>
        LET d == xf.depth
            out == xout.val
        IN  /\ xout.exc = "none"
            /\ out = Unnested(xin, d)
            /\ NestDepth(out) = Max(0, NestDepth(xin) - d)
            /\ (d = 1 /\ NestDepth(xin) = 1) => IsFlat(out)
            /\ d >= NestDepth(xin) =>
                  /\ IsFlat(out)
                  /\ FlattenCall(d + 1, xin) = out
                  /\ FlattenCall(d, out) = out
                  /\ FlattenCall(1, out) = out

\* Flatten(1) was applied to a sequence nested more than one level deep,
\* with an element that is no list: one level is gone, one is left
C9_Witness ==
    /\ Returned("flatten")
    /\ xf.depth = 1
    /\ NestDepth(xin) = 2
    /\ \E k \in 1..Len(xin) : ~IsList(xin[k])
    /\ NestDepth(xout.val) = 1
    /\ Len(xout.val) > Len(xin)

\* The keys of data in the order they are first seen
RECURSIVE FirstSeen(_, _)
FirstSeen(key, data) ==
    IF Len(data) = 0 THEN <<>>
    ELSE LET before == FirstSeen(key, SubSeq(data, 1, Len(data) - 1))
             k == KeyOf(key, data[Len(data)])
         IN  IF \E g \in 1..Len(before) : before[g] = k THEN before ELSE Append(before, k)

\* How many times v occurs in seq
Occurrences(seq, v) == Cardinality({k \in 1..Len(seq) : seq[k] = v})

\* C10: GroupBy partitions its input: every element is in exactly one
\* group, that of its key (a field or a key function); the keys are in
\* first-seen order; each group keeps the input's relative order; the
\* groups joined are a permutation of the input; an empty input gives an
\* empty mapping.
C10_GroupByPartitions ==
    Returned("groupby") =>
        LET groups == xout.val
            key == xf.key
            all == Joined([g \in 1..Len(groups) |-> groups[g].items])
        IN  /\ xout.exc = "none"
            /\ [g \in 1..Len(groups) |-> groups[g].key] = FirstSeen(key, xin)
            /\ \A g, h \in 1..Len(groups) : groups[g].key = groups[h].key => g = h
            /\ \A g \in 1..Len(groups) :
                  groups[g].items =
                     SelectSeq(xin, LAMBDA item : KeyOf(key, item) = groups[g].key)
            /\ \A k \in 1..Len(xin) :
                  Cardinality({g \in 1..Len(groups) :
                      \E j \in 1..Len(groups[g].items) : groups[g].items[j] = xin[k]}) = 1
            /\ Len(all) = Len(xin)
            /\ \A k \in 1..Len(xin) : Occurrences(all, xin[k]) = Occurrences(xin, xin[k])
            /\ xin = <<>> => groups = <<>>

\* GroupBy was applied to three records whose keys alternate: two groups,
\* the first holding the first and the third record
C10_Witness ==
    /\ Returned("groupby")
    /\ Len(xin) = 3
    /\ KeyOf(xf.key, xin[1]) = KeyOf(xf.key, xin[3])
    /\ KeyOf(xf.key, xin[1]) # KeyOf(xf.key, xin[2])
    /\ xin[1] # xin[3]
    /\ Len(xout.val) = 2
    /\ xout.val[1].items = <<xin[1], xin[3]>>

-----------------------------------------------------------------------------
(* Claims about ReduceTransform (PrimitiveSpec).                            *)

\* C11: Reduce with no initial on an empty sequence fails with the error of
\* the empty sequence (StopIteration from next() in the source); with no
\* initial on a one-element sequence it returns that element unchanged
\* without calling the reducer; with initial supplied, an empty sequence
\* returns initial unchanged.
C11_ReduceEdgeCases ==
    Returned("reduce") =>
        /\ (xf.given = <<>> /\ Len(xin) = 0) => xout.exc = "StopIteration"
        /\ (xf.given = <<>> /\ Len(xin) = 1) =>
              xout.exc = "none" /\ xout.val = xin[1] /\ xout.calls = 0
        /\ (xf.given # <<>> /\ Len(xin) = 0) =>
              xout.exc = "none" /\ xout.val = xf.given[1] /\ xout.calls = 0

\* The left fold of data from seed: ((seed . d1) . d2) ... . dn, an
\* exception of the reducer ending it
RECURSIVE Folded(_, _, _)
Folded(reducer, seed, data) ==
    IF Len(data) = 0 THEN Ok(seed)
    ELSE LET before == Folded(reducer, seed, SubSeq(data, 1, Len(data) - 1))
         IN  IF before.exc # "none" THEN before
             ELSE Reducer(reducer, before.val, data[Len(data)])

\* C12: Reduce is a left fold whose seed depends only on whether initial
\* was supplied, not on its value: whenever initial is supplied (zero, None
\* or any other value) the fold starts at initial and runs over all
\* elements; only when initial is omitted does it start at the first
\* element and run over the rest.
C12_ReduceSeedBySupply ==
    Returned("reduce") /\ (xf.given # <<>> \/ Len(xin) > 0) =>
        LET expected == IF xf.given # <<>>
                        THEN Folded(xf.reducer, xf.given[1], xin)
                        ELSE Folded(xf.reducer, xin[1], Tail(xin))
        IN  /\ xout.exc = expected.exc
            /\ xout.exc = "none" => xout.val = expected.val

-----------------------------------------------------------------------------
(* Claims about CacheTransform (CacheSpec).                                 *)

\* The first object called with key k in the calls hist of a cache
FirstWithKey(key_fn, hist, k) ==
    hist[CHOOSE i \in 1..Len(hist) :
            /\ KeyFn(key_fn, hist[i]) = k
            /\ \A j \in 1..(i - 1) : KeyFn(key_fn, hist[j]) # k]

\* The memo table of every cache holds, for exactly the keys called since
\* its last clear, the first object called with that key
MemoIsFirstPerKey ==
    \A c \in 1..Len(caches) :
        LET self == caches[c]
        IN  /\ \A i \in 1..Len(chist[c]) : HasKey(self.cache, KeyFn(self.key_fn, chist[c][i]))
            /\ \A e \in 1..Len(self.cache) :
                  /\ \E i \in 1..Len(chist[c]) :
                        KeyFn(self.key_fn, chist[c][i]) = self.cache[e].key
                  /\ self.cache[e].data =
                        FirstWithKey(self.key_fn, chist[c], self.cache[e].key)
                  /\ \A f \in 1..Len(self.cache) :
                        self.cache[f].key = self.cache[e].key => f = e

\* The last call returned the first object called with its key since the
\* last clear (the object itself when there was none)
ApplyReturnsFirst ==
    cop.op = "call" =>
        cop.out = FirstWithKey(caches[cop.self].key_fn, chist[cop.self],
                               KeyFn(caches[cop.self].key_fn, cop.data))

\* C13: for a Cache with key function k, after any sequence of apply and
\* clear calls, apply(d) returns the first value applied with key k(d)
\* since the last clear (d itself if there was none, which is then stored);
\* an apply never overwrites an existing memo entry; and the memo table of
\* a Cache changes only in calls on that Cache.
C13_CacheReturnsFirstPerKey ==
    [][ /\ ApplyReturnsFirst'
        /\ MemoIsFirstPerKey'
        /\ \A c \in 1..Len(caches) :
              /\ cop'.op = "call" =>
                    \A e \in 1..Len(caches[c].cache) :
                        /\ e <= Len(caches'[c].cache)
                        /\ caches'[c].cache[e] = caches[c].cache[e]
              /\ (cop'.op \in {"call", "clear"} /\ cop'.self # c) =>
                    caches'[c] = caches[c] ]_vars

\* A cache keyed by len returned, for a list of length 2, the different
\* list of length 2 it was called with first, while another cache holds an
\* entry of its own
C13_Witness ==
    /\ cop.op = "call"
    /\ caches[cop.self].key_fn = "len"
    /\ cop.out.val # cop.data.val
    /\ Len(cop.out.val) = Len(cop.data.val)
    /\ \E c \in 1..Len(caches) : c # cop.self /\ Len(caches[c].cache) > 0

\* C14: a Cache built without a key function keys its memo table by
\* content equality, not by address: called on two equal but distinct
\* inputs, the second call is a hit that returns the object stored by the
\* first, and the memo table holds one entry per distinct content.
C14_DefaultKeyIsContent ==
    \A c \in 1..Len(caches) :
        caches[c].key_fn = "id" =>
            /\ (cop.op = "call" /\ cop.self = c) =>
                  LET first == CHOOSE i \in 1..Len(chist[c]) :
                                  /\ chist[c][i].val = cop.data.val
                                  /\ \A j \in 1..(i - 1) : chist[c][j].val # cop.data.val
                  IN  cop.out = chist[c][first]
            /\ Len(caches[c].cache) =
                  Cardinality({chist[c][i].val : i \in 1..Len(chist[c])})

-----------------------------------------------------------------------------
(* Claims about LazyPipeline (LazySpec).                                    *)

Builders == {"map", "filter", "take", "skip"}

\* C15: construction and the builder calls (map, filter, take, skip)
\* invoke neither the producer nor any transform; each collect invokes the
\* producer exactly once (when the source is the producer) and every
\* transform of that pipeline exactly once, in order; so the producer was
\* invoked as many times as collect was called on its pipelines; and two
\* collects of one pipeline of the producer with no transforms return two
\* different values.
C15_LazyUntilCollect ==
    [][ /\ lop'.op \in Builders \cup {"init"} =>
              produced' = produced /\ linvoked' = linvoked
        /\ (lop'.op = "collect" /\ collected' # collected) =>
              LET self == lazies[lop'.self]
                  seq == lheap[self.transforms]
              IN  /\ produced' = produced + (IF self.source.callable THEN 1 ELSE 0)
                  /\ lop'.applied = [k \in 1..Len(seq) |-> k]
                  /\ linvoked' = linvoked + Len(seq)
        /\ produced' = Cardinality({i \in 1..Len(collected') :
                                      lazies'[collected'[i].self].source.callable})
        /\ \A i, j \in 1..Len(collected') :
              ( /\ i < j
                /\ collected'[i].self = collected'[j].self
                /\ lazies'[collected'[i].self].source.callable
                /\ Len(lheap'[lazies'[collected'[i].self].transforms]) = 0 ) =>
                    collected'[i].out # collected'[j].out ]_vars

\* A pipeline of the producer with no transforms was collected twice, after
\* a builder call on it, and gave [1, 2, 3] and then [2, 3, 4]
C15_Witness ==
    /\ Len(collected) = 2
    /\ collected[1].self = collected[2].self
    /\ lazies[collected[1].self].source.callable
    /\ Len(lheap[lazies[collected[1].self].transforms]) = 0
    /\ collected[1].out = Ok(<<1, 2, 3>>)
    /\ collected[2].out = Ok(<<2, 3, 4>>)
    /\ produced = 2
    /\ Len(lazies) > 1

\* C16: each builder method returns a new LazyPipeline with the receiver's
\* source and the receiver's transforms extended by the one new stage, on a
\* list no other pipeline holds; every pipeline there was, the receiver
\* included, keeps its source and its transforms, and the receiver collects
\* to the same result as before.
C16_BuildersReturnNew ==
    [][ lop'.op \in Builders =>
          LET p == lop'.self
              new == lop'.out
          IN  /\ new = Len(lazies) + 1
              /\ Len(lazies') = new
              /\ lazies'[new].source = lazies[p].source
              /\ lheap'[lazies'[new].transforms] =
                    Append(lheap[lazies[p].transforms], lop'.stage)
              /\ lop'.stage.kind =
                    (CASE lop'.op = "map" -> "map" [] lop'.op = "filter" -> "filter"
                       [] lop'.op = "take" -> "taker" [] lop'.op = "skip" -> "skipper")
              /\ \A q \in 1..Len(lazies) :
                    /\ lazies'[q] = lazies[q]
                    /\ lheap'[lazies'[q].transforms] = lheap[lazies[q].transforms]
                    /\ lazies'[q].transforms # lazies'[new].transforms
              /\ CollectFrom(lheap'[lazies'[p].transforms], 1,
                             Resolve(lazies'[p].source, produced').val, <<>>).out
                 = CollectFrom(lheap[lazies[p].transforms], 1,
                               Resolve(lazies[p].source, produced).val, <<>>).out ]_vars

\* Two pipelines were derived from pipeline 1, which holds the caller's
\* list of one stage: each has that stage and its own second stage
C16_Witness ==
    /\ Len(lazies) = 3
    /\ Len(lheap[lazies[1].transforms]) = 1
    /\ lheap[lazies[2].transforms] = Append(lheap[lazies[1].transforms], Filter("even"))
    /\ lheap[lazies[3].transforms] = Append(lheap[lazies[1].transforms], Taker(2))
    /\ lop.op = "take"

\* C17: for every n >= 0 and every sequence current at that stage, take(n)
\* yields exactly its first min(n, len) elements in order and skip(n)
\* exactly the elements after them, so the take(n) result followed by the
\* skip(n) result is the stage's input.  (PrimitiveSpec)
C17_TakeSkipSplit ==
    (xpc = "done" /\ xf.kind \in {"taker", "skipper"} /\ xf.n >= 0) =>
        LET k == Min(xf.n, Len(xin))
        IN  /\ xout.exc = "none"
            /\ xf.kind = "taker" =>
                  /\ xout.val = SubSeq(xin, 1, k)
                  /\ xout.val \o Call(Skipper(xf.n), xin).val = xin
            /\ xf.kind = "skipper" =>
                  /\ xout.val = SubSeq(xin, k + 1, Len(xin))
                  /\ Call(Taker(xf.n), xin).val \o xout.val = xin

\* skip(2) was called on [1, 2, 3] and gave [3], and take(4) on three
\* elements gives them all
C17_Witness ==
    /\ xpc = "done"
    /\ xf = Skipper(2)
    /\ xin = <<1, 2, 3>>
    /\ xout = Ok(<<3>>)
    /\ Call(Taker(4), xin) = Ok(xin)

\* C18: collect on a LazyPipeline with source s and transforms ts returns
\* what the eager Pipeline of ts returns when called on the resolved source:
\* the producer's return value when s is the producer, s itself otherwise.
C18_CollectIsEagerCall ==
    lop.op = "collect" =>
        LET self == lazies[lop.self]
        IN  /\ lop.source = (IF self.source.callable THEN ProducerCall(produced)
                             ELSE self.source.val)
            /\ lop.out = PipelineCall(lheap[self.transforms], lop.source).out

\* A pipeline of the producer with two stages was collected on the
\* producer's second value and returned another list
C18_Witness ==
    /\ lop.op = "collect"
    /\ lazies[lop.self].source.callable
    /\ produced = 2
    /\ Len(lheap[lazies[lop.self].transforms]) = 2
    /\ lop.out.exc = "none"
    /\ lop.out.val # lop.source
    /\ Len(lop.out.val) > 0

-----------------------------------------------------------------------------
(* Claims about calculate_percentile (StatisticsSpec).                      *)

\* C19: calculate_percentile raises ValueError for every percentile outside
\* 0..100 (above 100 and negative), for any non-empty list of values, and
\* returns no value then.
C19_PercentileOutOfRangeRaises ==
    (Returned("percentile") /\ Len(xin) > 0
        /\ (xf.percentile < 0 \/ xf.percentile > 100)) =>
            xout.exc = "ValueError"

\* C20: for every non-empty list of values, calculate_percentile(values, 0)
\* returns the minimum and calculate_percentile(values, 100) the maximum,
\* and every percentile in 0..100 selects an index inside the sorted list.
C20_PercentileBounds ==
    (Returned("percentile") /\ Len(xin) > 0) =>
        /\ xf.percentile = 0 =>
              /\ xout.exc = "none"
              /\ \E i \in 1..Len(xin) : xin[i] = xout.val
              /\ \A i \in 1..Len(xin) : xout.val <= xin[i]
        /\ xf.percentile = 100 =>
              /\ xout.exc = "none"
              /\ \E i \in 1..Len(xin) : xin[i] = xout.val
              /\ \A i \in 1..Len(xin) : xout.val >= xin[i]
        /\ (0 <= xf.percentile /\ xf.percentile <= 100) =>
              /\ PercentileIndex(xf.percentile, Len(xin)) \in 0..(Len(xin) - 1)
              /\ xout.exc = "none"

-----------------------------------------------------------------------------
(* Claims about calculate_median (StatisticsSpec).                          *)

\* C21: calculate_median returns, for any input order, the middle element
\* of the sorted values when the length is odd and the average of the two
\* middle elements of the sorted values when the length is even (twice the
\* value returned is their sum); for an empty list it returns 0.
C21_MedianIsMiddle ==
    Returned("median") =>
        LET n == Len(xin)
            below(v) == Cardinality({i \in 1..n : xin[i] < v})
            upto(v) == Cardinality({i \in 1..n : xin[i] <= v})
            \* the value at place k (from 1) of the values in ascending order
            Placed(k) == CHOOSE v \in {xin[i] : i \in 1..n} : below(v) < k /\ k <= upto(v)
        IN  /\ xout.exc = "none"
            /\ n = 0 => xout.val = 0
            /\ (n > 0 /\ n % 2 = 1) => xout.val = Placed((n + 1) \div 2)
            /\ (n > 0 /\ n % 2 = 0) =>
                  2 * xout.val = Placed(n \div 2) + Placed((n \div 2) + 1)

-----------------------------------------------------------------------------
(* Claims about the termination of WindowTransform (WindowSpec).            *)

\* C22: applying a Window to a finite sequence always terminates, for every
\* integer size and step it can be constructed with (step = 0, a negative
\* step and size = 0 included), because the window start index strictly
\* increases on every iteration of the loop.
C22_WindowIndexIncreases ==
    [][ (xpc = "window" /\ xpc' = "window") => xi' > xi ]_vars

-----------------------------------------------------------------------------
(* Claims about the ownership of a Pipeline's sequence (Spec).              *)

\* C23: a Pipeline owns its sequence: after Pipeline(lst) or pipe(...) is
\* built, add on that pipeline changes only that pipeline's sequence, never
\* the caller's list lst (the list at address 1) nor the sequence of any
\* other Pipeline built from the same list, for an empty and for a
\* non-empty lst.
C23_PipelineOwnsSequence ==
    [][ pop'.op = "add" =>
          /\ Len(Sequence(heap', pipes', pop'.self)) =
                Len(Sequence(heap, pipes, pop'.self)) + 1
          /\ heap'[1] = heap[1]
          /\ \A q \in 1..Len(pipes) :
                q # pop'.self => Sequence(heap', pipes', q) = Sequence(heap, pipes, q)
      ]_vars

====
